---- MODULE Spec2Model ----
(***************************************************************************)
(* Model of the OpenPilot alarms library (flight/Libraries/alarms.c): the  *)
(* SystemAlarms record guarded by one recursive mutex, and the tasks that  *)
(* call AlarmsSet, ExtendedAlarmsSet, AlarmsGet, AlarmsDefault(All),       *)
(* AlarmsClear(All) and the AlarmsHas... queries concurrently.             *)
(***************************************************************************)
EXTENDS Integers, FiniteSets, Sequences, TLC

\* ----------------------------------------------------------------- sizes
\* SYSTEMALARMS_ALARM_NUMELEM, the number of alarms, and
\* SYSTEMALARMS_EXTENDEDALARMSTATUS_NUMELEM, the number of extended alarms:
\* ids 0 .. ExtNumElem - 1 are extended, ExtNumElem .. NumElem - 1 simple.
NumElem == 2
ExtNumElem == 1

\* Number of library calls made in one run.
MaxCalls == 2

\* The tasks that call the library.
Tasks == {"t1", "t2"}
NoTask == "none"
FirstTask == "t1"

\* ------------------------------------------------- SystemAlarmsAlarmOptions
SYSTEMALARMS_ALARM_UNINITIALISED == 0
SYSTEMALARMS_ALARM_OK == 1
SYSTEMALARMS_ALARM_WARNING == 2
SYSTEMALARMS_ALARM_ERROR == 3
SYSTEMALARMS_ALARM_CRITICAL == 4
SYSTEMALARMS_ALARM_DEFAULT == SYSTEMALARMS_ALARM_UNINITIALISED

Severities == SYSTEMALARMS_ALARM_UNINITIALISED .. SYSTEMALARMS_ALARM_CRITICAL
\* The (status, subStatus) bytes callers pass to ExtendedAlarmsSet; AlarmsClear
\* passes (0, 0) itself. The library only copies these bytes.
StatusPairs == {<<1, 2>>, <<9, 9>>}
\* Alarm ids drawn as inputs: the valid ones and NumElem, one past the last.
AlarmIds == 0 .. NumElem

\* Return values of the int32_t functions.
Success == 0
Failure == -1

\* ------------------------------------------------------------------ state
VARIABLES
    table,      \* the SystemAlarms record held by the external store
    lock,       \* the recursive mutex: created, holder, nesting count
    pc,         \* per task: where it stands in the library
    op,         \* per task: the public call it is in, with its arguments
    cur,        \* per task: the AlarmsSet/ExtendedAlarmsSet/hasSeverity frame
    alarms,     \* per task: the local SystemAlarmsData copy
    n,          \* per task: the loop counter n
    ret,        \* per task: the value its call returned
    calls,      \* number of public calls started
    run         \* per task: bookkeeping of the call in progress

vars == <<table, lock, pc, op, cur, alarms, n, ret, calls, run>>

\* The record as SystemAlarmsInitialize leaves it: every field at its default.
DefaultTable ==
    [Alarm |-> [i \in 0 .. NumElem - 1 |-> SYSTEMALARMS_ALARM_DEFAULT],
     ExtendedAlarmStatus |-> [i \in 0 .. ExtNumElem - 1 |-> 0],
     ExtendedAlarmSubStatus |-> [i \in 0 .. ExtNumElem - 1 |-> 0]]

NoOp == [name |-> "none", alarm |-> 0, severity |-> 0, status |-> 0, subStatus |-> 0]
NoFrame == [fn |-> "none", alarm |-> 0, severity |-> 0, status |-> 0, subStatus |-> 0]

\* The value of one alarm entry: severity and, for an extended alarm, its
\* status and sub-status.
Entry(tbl, id) ==
    IF id < ExtNumElem
    THEN <<tbl.Alarm[id], tbl.ExtendedAlarmStatus[id], tbl.ExtendedAlarmSubStatus[id]>>
    ELSE <<tbl.Alarm[id]>>

\* Bookkeeping of a call: the record stored when AlarmsClearAll or
\* AlarmsDefaultAll started (pre; not kept for the other calls), the record its
\* last SystemAlarmsGet returned (snap), the number of SystemAlarmsGet (nr)
\* and SystemAlarmsSet (nw) it made, of mutex takes and gives that succeeded,
\* the number of calls of other tasks in progress at some moment of it
\* (overlaps), the number of calls started since it returned (later), and the
\* tasks whose returned call preceded its start (after).
NoRun == [pre |-> DefaultTable, snap |-> DefaultTable, nr |-> 0, nw |-> 0,
          takes |-> 0, gives |-> 0, overlaps |-> 0, later |-> 0, after |-> {}]

Init ==
    /\ table = DefaultTable
    /\ lock = [created |-> FALSE, holder |-> NoTask, count |-> 0]
    /\ pc = [t \in Tasks |-> "idle"]
    /\ op = [t \in Tasks |-> NoOp]
    /\ cur = [t \in Tasks |-> NoFrame]
    /\ alarms = [t \in Tasks |-> DefaultTable]
    /\ n = [t \in Tasks |-> 0]
    /\ ret = [t \in Tasks |-> 0]
    /\ calls = 0
    /\ run = [t \in Tasks |-> NoRun]

AlarmsInitialize_ClearsAll ==
    /\ ~lock.created
    /\ lock' = [created |-> TRUE, holder |-> NoTask, count |-> 0]
    /\ table' = [Alarm |-> [i \in 0 .. NumElem - 1 |-> SYSTEMALARMS_ALARM_OK],
                 ExtendedAlarmStatus |-> [i \in 0 .. ExtNumElem - 1 |-> 0],
                 ExtendedAlarmSubStatus |-> [i \in 0 .. ExtNumElem - 1 |-> 0]]
    /\ UNCHANGED <<pc, op, cur, alarms, n, ret, calls, run>>

\* AlarmsInitialize: SystemAlarmsInitialize has set up the record; the mutex
\* is created and no alarm is cleared or defaulted.
AlarmsInitialize ==
    /\ ~lock.created
    /\ lock' = [created |-> TRUE, holder |-> NoTask, count |-> 0]
    /\ UNCHANGED <<table, pc, op, cur, alarms, n, ret, calls, run>>

\* ------------------------------------------------------- the external store
\* SystemAlarmsGet(&alarms): the whole record, copied in one piece.
SystemAlarmsGet == table

\* SystemAlarmsSet(&alarms): the whole record replaced in one piece.
SystemAlarmsSet(data) == table' = data

\* ------------------------------------------------------ the recursive mutex
\* xSemaphoreTakeRecursive(lock, portMAX_DELAY) can take the mutex when it is
\* free or already held by the calling task.
TakeAvailable_NoExclusion(t) == lock.holder \in Tasks \cup {NoTask}

TakeAvailable_WhenCreated(t) == lock.created

TakeAvailable(t) == lock.holder = NoTask \/ lock.holder = t

LockAfterTake_NotTaken(t) == lock

LockAfterTake(t) == [lock EXCEPT !.holder = t, !.count = @ + 1]

LockAfterGive_NotGiven(t) == lock

LockAfterGive_HolderKept(t) == [lock EXCEPT !.count = 0]

LockAfterGive_Decrement(t) ==
    IF lock.holder # t THEN lock ELSE [lock EXCEPT !.count = @ - 1]

\* xSemaphoreGiveRecursive: only the holder's give counts; the mutex is free
\* again when the nesting count is back to zero.
LockAfterGive(t) ==
    IF lock.holder # t THEN lock
    ELSE IF lock.count = 1 THEN [lock EXCEPT !.holder = NoTask, !.count = 0]
    ELSE [lock EXCEPT !.count = @ - 1]

\* ------------------------------------------------------- frames and routing
SetFrame(alarm, severity) ==
    [fn |-> "AlarmsSet", alarm |-> alarm, severity |-> severity, status |-> 0,
     subStatus |-> 0]

ExtFrame(alarm, severity, status, subStatus) ==
    [fn |-> "ExtendedAlarmsSet", alarm |-> alarm, severity |-> severity,
     status |-> status, subStatus |-> subStatus]

HasFrame(severity) ==
    [fn |-> "hasSeverity", alarm |-> 0, severity |-> severity, status |-> 0,
     subStatus |-> 0]

ValidAlarm_SimpleRange(f) == f.alarm < NumElem

ValidAlarm_OnePast(f) ==
    IF f.fn = "ExtendedAlarmsSet" THEN f.alarm < ExtNumElem ELSE f.alarm <= NumElem

\* The range check at the head of AlarmsSet and of ExtendedAlarmsSet.
ValidAlarm(f) ==
    IF f.fn = "ExtendedAlarmsSet" THEN f.alarm < ExtNumElem ELSE f.alarm < NumElem

\* AlarmsDefault(alarm) is AlarmsSet(alarm, SYSTEMALARMS_ALARM_DEFAULT).
AlarmsDefault(alarm) == SetFrame(alarm, SYSTEMALARMS_ALARM_DEFAULT)

AlarmsClear_SeverityOnly(alarm) == SetFrame(alarm, SYSTEMALARMS_ALARM_OK)

\* AlarmsClear(alarm) routes by the id: extended alarms are cleared with
\* ExtendedAlarmsSet(alarm, OK, 0, 0), the others with AlarmsSet(alarm, OK).
AlarmsClear(alarm) ==
    IF alarm < ExtNumElem
    THEN ExtFrame(alarm, SYSTEMALARMS_ALARM_OK, 0, 0)
    ELSE SetFrame(alarm, SYSTEMALARMS_ALARM_OK)

LoopFrame_Descending(name, i) ==
    IF name = "AlarmsClearAll" THEN AlarmsClear(NumElem - 1 - i)
    ELSE AlarmsDefault(NumElem - 1 - i)

LoopFrame_SeverityOnly(name, i) ==
    IF name = "AlarmsClearAll" THEN SetFrame(i, SYSTEMALARMS_ALARM_OK)
    ELSE AlarmsDefault(i)

\* The call one iteration of AlarmsClearAll / AlarmsDefaultAll makes.
LoopFrame(name, i) ==
    IF name = "AlarmsClearAll" THEN AlarmsClear(i) ELSE AlarmsDefault(i)

IsLoop(name) == name \in {"AlarmsClearAll", "AlarmsDefaultAll"}

Changed_AnyField(tbl, f) ==
    \/ tbl.Alarm[f.alarm] # f.severity
    \/ /\ f.fn = "ExtendedAlarmsSet"
       /\ \/ tbl.ExtendedAlarmStatus[f.alarm] # f.status
          \/ tbl.ExtendedAlarmSubStatus[f.alarm] # f.subStatus

Changed_Always(tbl, f) == tbl.Alarm[f.alarm] \in Severities

\* The comparison that gates the write-back.
Changed(tbl, f) == tbl.Alarm[f.alarm] # f.severity

Updated_SameRecord(tbl, f) == tbl

Updated_FromDefaults(tbl, f) ==
    [DefaultTable EXCEPT !.Alarm[f.alarm] = f.severity]

\* The local copy after the assignments that precede SystemAlarmsSet.
Updated(tbl, f) ==
    IF f.fn = "ExtendedAlarmsSet"
    THEN [tbl EXCEPT !.ExtendedAlarmStatus[f.alarm] = f.status,
                     !.ExtendedAlarmSubStatus[f.alarm] = f.subStatus,
                     !.Alarm[f.alarm] = f.severity]
    ELSE [tbl EXCEPT !.Alarm[f.alarm] = f.severity]

Matches_Above(tbl, i, severity) == tbl.Alarm[i] > severity

\* The test of the scan in hasSeverity.
Matches(tbl, i, severity) == tbl.Alarm[i] >= severity

GetResult_FirstAlarm(tbl, alarm) == tbl.Alarm[0]

\* What AlarmsGet returns from the copy it read.
GetResult(tbl, alarm) == tbl.Alarm[alarm]

\* ------------------------------------------------------------- bookkeeping
Others(t) == Tasks \ {t}
InCall(u) == pc[u] \notin {"idle", "ret"}

\* The bookkeeping once task t starts the call name: the calls in progress
\* overlap it, the returned ones are followed by it.
RunStarted(t, name) ==
    [u \in Tasks |->
        IF u = t
        THEN [NoRun EXCEPT !.pre = IF IsLoop(name) THEN table ELSE DefaultTable,
                           !.overlaps = Cardinality({v \in Others(t) : InCall(v)}),
                           !.after = {v \in Others(t) : pc[v] = "ret"}]
        ELSE IF InCall(u) THEN [run[u] EXCEPT !.overlaps = @ + 1]
        ELSE IF pc[u] = "ret" THEN [run[u] EXCEPT !.later = @ + 1]
        ELSE run[u]]

\* A call rejected by the range check uses none of its other arguments: only
\* its name and id are kept.
Rejected(o) == [NoOp EXCEPT !.name = o.name, !.alarm = o.alarm]

\* Task t enters the frame f of its public call o: the range check fails and
\* the call returns -1 at once, or the task goes on to take the mutex.
Enter(t, o, f) ==
    /\ calls' = calls + 1
    /\ run' = RunStarted(t, o.name)
    /\ UNCHANGED <<table, lock, alarms, n>>
    /\ IF ValidAlarm(f)
       THEN /\ pc' = [pc EXCEPT ![t] = "take"]
            /\ op' = [op EXCEPT ![t] = o]
            /\ cur' = [cur EXCEPT ![t] = f]
            /\ ret' = ret
       ELSE /\ pc' = [pc EXCEPT ![t] = "ret"]
            /\ op' = [op EXCEPT ![t] = Rejected(o)]
            /\ cur' = cur
            /\ ret' = [ret EXCEPT ![t] = Failure]

\* A task may call the library once AlarmsInitialize has run.  The tasks are
\* interchangeable, so the first call of a run is taken to be FirstTask's.
CanCall(t) ==
    /\ lock.created
    /\ pc[t] = "idle"
    /\ calls < MaxCalls
    /\ calls = 0 => t = FirstTask

\* The call of task t is over and the task is back in its own code.
Return(t) ==
    /\ pc[t] = "ret"
    /\ pc' = [pc EXCEPT ![t] = "idle"]
    /\ op' = [op EXCEPT ![t] = NoOp]
    /\ cur' = [cur EXCEPT ![t] = NoFrame]
    /\ alarms' = [alarms EXCEPT ![t] = DefaultTable]
    /\ n' = [n EXCEPT ![t] = 0]
    /\ ret' = [ret EXCEPT ![t] = 0]
    /\ run' = [u \in Tasks |->
                 IF u = t THEN NoRun ELSE [run[u] EXCEPT !.after = @ \ {t}]]
    /\ UNCHANGED <<table, lock, calls>>

\* ------------------------------------------------------------ public calls
\* AlarmsSet(alarm, severity)
CallAlarmsSet(t) ==
    /\ CanCall(t)
    /\ \E a \in AlarmIds, s \in Severities :
          Enter(t, [name |-> "AlarmsSet", alarm |-> a, severity |-> s,
                    status |-> 0, subStatus |-> 0],
                SetFrame(a, s))

\* ExtendedAlarmsSet(alarm, severity, status, subStatus)
CallExtendedAlarmsSet(t) ==
    /\ CanCall(t)
    /\ \E a \in AlarmIds, s \in Severities, p \in StatusPairs :
          Enter(t, [name |-> "ExtendedAlarmsSet", alarm |-> a, severity |-> s,
                    status |-> p[1], subStatus |-> p[2]],
                ExtFrame(a, s, p[1], p[2]))

\* AlarmsDefault(alarm)
CallAlarmsDefault(t) ==
    /\ CanCall(t)
    /\ \E a \in AlarmIds :
          Enter(t, [NoOp EXCEPT !.name = "AlarmsDefault", !.alarm = a],
                AlarmsDefault(a))

\* AlarmsClear(alarm)
CallAlarmsClear(t) ==
    /\ CanCall(t)
    /\ \E a \in AlarmIds :
          Enter(t, [NoOp EXCEPT !.name = "AlarmsClear", !.alarm = a],
                AlarmsClear(a))

\* AlarmsDefaultAll() and AlarmsClearAll(): the loop starts at n = 0.
CallAlarmsDefaultAll(t) ==
    /\ CanCall(t)
    /\ Enter(t, [NoOp EXCEPT !.name = "AlarmsDefaultAll"],
             LoopFrame("AlarmsDefaultAll", 0))

CallAlarmsClearAll(t) ==
    /\ CanCall(t)
    /\ Enter(t, [NoOp EXCEPT !.name = "AlarmsClearAll"],
             LoopFrame("AlarmsClearAll", 0))

HasThreshold_Swapped(name) ==
    IF name = "AlarmsHasWarnings" THEN SYSTEMALARMS_ALARM_CRITICAL
    ELSE IF name = "AlarmsHasErrors" THEN SYSTEMALARMS_ALARM_ERROR
    ELSE SYSTEMALARMS_ALARM_WARNING

\* AlarmsHasWarnings(), AlarmsHasErrors(), AlarmsHasCritical(): hasSeverity
\* with the threshold of each.
HasThreshold(name) ==
    IF name = "AlarmsHasWarnings" THEN SYSTEMALARMS_ALARM_WARNING
    ELSE IF name = "AlarmsHasErrors" THEN SYSTEMALARMS_ALARM_ERROR
    ELSE SYSTEMALARMS_ALARM_CRITICAL

CallAlarmsHas(t) ==
    /\ CanCall(t)
    /\ \E name \in {"AlarmsHasWarnings", "AlarmsHasErrors", "AlarmsHasCritical"} :
          Enter(t, [NoOp EXCEPT !.name = name, !.severity = HasThreshold(name)],
                HasFrame(HasThreshold(name)))

\* AlarmsGet(alarm): an id out of range returns 0 at once; otherwise the task
\* goes on to read the record, without taking the mutex.
CallAlarmsGet(t) ==
    /\ CanCall(t)
    /\ calls' = calls + 1
    /\ run' = RunStarted(t, "AlarmsGet")
    /\ UNCHANGED <<table, lock, cur, alarms, n>>
    /\ \E a \in AlarmIds :
          /\ op' = [op EXCEPT ![t] = [NoOp EXCEPT !.name = "AlarmsGet", !.alarm = a]]
          /\ IF a >= NumElem
             THEN pc' = [pc EXCEPT ![t] = "ret"] /\ ret' = [ret EXCEPT ![t] = 0]
             ELSE pc' = [pc EXCEPT ![t] = "getread"] /\ ret' = ret

\* SystemAlarmsGet(&alarms); return alarms.Alarm[alarm];
GetRead(t) ==
    /\ pc[t] = "getread"
    /\ alarms' = [alarms EXCEPT ![t] = SystemAlarmsGet]
    /\ ret' = [ret EXCEPT ![t] = GetResult(SystemAlarmsGet, op[t].alarm)]
    /\ run' = [run EXCEPT ![t].nr = @ + 1, ![t].snap = SystemAlarmsGet]
    /\ pc' = [pc EXCEPT ![t] = "ret"]
    /\ UNCHANGED <<table, lock, op, cur, n, calls>>

\* ------------------------------------------ AlarmsSet / ExtendedAlarmsSet
\* xSemaphoreTakeRecursive(lock, portMAX_DELAY) returns pdTRUE: the task
\* blocks until the mutex can be taken.
Take(t) ==
    /\ pc[t] = "take"
    /\ TakeAvailable(t)
    /\ lock' = LockAfterTake(t)
    /\ run' = [run EXCEPT ![t].takes = @ + 1]
    /\ pc' = [pc EXCEPT ![t] = "read"]
    /\ UNCHANGED <<table, op, cur, alarms, n, ret, calls>>

\* Where a frame goes after SystemAlarmsGet: hasSeverity scans from n = 0,
\* the setters write back only when the severity differs.
AfterRead(tbl, f) ==
    IF f.fn = "hasSeverity" THEN "scan"
    ELSE IF Changed(tbl, f) THEN "write" ELSE "give"

\* SystemAlarmsGet(&alarms) in AlarmsSet, ExtendedAlarmsSet and hasSeverity,
\* with the comparison that follows it.
ReadRecord(t) ==
    /\ pc[t] = "read"
    /\ alarms' = [alarms EXCEPT ![t] = SystemAlarmsGet]
    /\ run' = [run EXCEPT ![t].nr = @ + 1, ![t].snap = SystemAlarmsGet]
    /\ pc' = [pc EXCEPT ![t] = AfterRead(SystemAlarmsGet, cur[t])]
    /\ n' = [n EXCEPT ![t] = IF cur[t].fn = "hasSeverity" THEN 0 ELSE @]
    /\ UNCHANGED <<table, lock, op, cur, ret, calls>>

\* The assignments to the local copy and SystemAlarmsSet(&alarms).
WriteRecord(t) ==
    /\ pc[t] = "write"
    /\ SystemAlarmsSet(Updated(alarms[t], cur[t]))
    /\ alarms' = [alarms EXCEPT ![t] = Updated(alarms[t], cur[t])]
    /\ run' = [run EXCEPT ![t].nw = @ + 1]
    /\ pc' = [pc EXCEPT ![t] = "give"]
    /\ UNCHANGED <<lock, op, cur, n, ret, calls>>

\* The frame of task t has returned r: AlarmsClearAll and AlarmsDefaultAll
\* drop the value and go on with the next n, any other call returns it.
FrameDone(t, r) ==
    IF IsLoop(op[t].name) /\ n[t] + 1 < NumElem
    THEN /\ n' = [n EXCEPT ![t] = @ + 1]
         /\ cur' = [cur EXCEPT ![t] = LoopFrame(op[t].name, n[t] + 1)]
         /\ pc' = [pc EXCEPT ![t] = "take"]
         /\ ret' = ret
    ELSE /\ pc' = [pc EXCEPT ![t] = "ret"]
         /\ ret' = [ret EXCEPT ![t] = IF IsLoop(op[t].name) THEN 0 ELSE r]
         /\ UNCHANGED <<n, cur>>

\* xSemaphoreGiveRecursive(lock); return 0;
Give(t) ==
    /\ pc[t] = "give"
    /\ lock' = LockAfterGive(t)
    /\ run' = [run EXCEPT ![t].gives = IF lock.holder = t THEN @ + 1 ELSE @]
    /\ FrameDone(t, Success)
    /\ UNCHANGED <<table, op, alarms, calls>>

\* ------------------------------------------------------------- hasSeverity
\* One turn of the for loop over alarms.Alarm[n].
HasScan(t) ==
    /\ pc[t] = "scan"
    /\ IF n[t] < NumElem
       THEN IF Matches(alarms[t], n[t], cur[t].severity)
            THEN pc' = [pc EXCEPT ![t] = "giveHit"] /\ n' = n
            ELSE pc' = pc /\ n' = [n EXCEPT ![t] = @ + 1]
       ELSE pc' = [pc EXCEPT ![t] = "giveMiss"] /\ n' = n
    /\ UNCHANGED <<table, lock, op, cur, alarms, ret, calls, run>>

\* xSemaphoreGiveRecursive(lock); return 1;  or  ...; return 0;
HasGive(t) ==
    /\ pc[t] \in {"giveHit", "giveMiss"}
    /\ lock' = LockAfterGive(t)
    /\ run' = [run EXCEPT ![t].gives = IF lock.holder = t THEN @ + 1 ELSE @]
    /\ ret' = [ret EXCEPT ![t] = IF pc[t] = "giveHit" THEN 1 ELSE 0]
    /\ pc' = [pc EXCEPT ![t] = "ret"]
    /\ UNCHANGED <<table, op, cur, alarms, n, calls>>

\* --------------------------------------------------------- specifications
Next ==
    \/ AlarmsInitialize
    \/ \E t \in Tasks : CallAlarmsSet(t)
    \/ \E t \in Tasks : CallExtendedAlarmsSet(t)
    \/ \E t \in Tasks : CallAlarmsGet(t)
    \/ \E t \in Tasks : CallAlarmsDefault(t)
    \/ \E t \in Tasks : CallAlarmsDefaultAll(t)
    \/ \E t \in Tasks : CallAlarmsClear(t)
    \/ \E t \in Tasks : CallAlarmsClearAll(t)
    \/ \E t \in Tasks : CallAlarmsHas(t)
    \/ \E t \in Tasks : Take(t)
    \/ \E t \in Tasks : ReadRecord(t)
    \/ \E t \in Tasks : WriteRecord(t)
    \/ \E t \in Tasks : Give(t)
    \/ \E t \in Tasks : GetRead(t)
    \/ \E t \in Tasks : HasScan(t)
    \/ \E t \in Tasks : HasGive(t)
    \/ \E t \in Tasks : Return(t)

Spec == Init /\ [][Next]_vars

\* -------------------------------------------------------- fair scheduling
\* A step of task t inside the library.
Step(t) ==
    \/ Take(t)
    \/ ReadRecord(t)
    \/ WriteRecord(t)
    \/ Give(t)
    \/ GetRead(t)
    \/ HasScan(t)
    \/ HasGive(t)

\* The scheduler runs every task that can take a step: a task that is ready,
\* or whose wait for the mutex can end, is not left out forever.
SpecFair == Spec /\ \A t \in Tasks : WF_vars(Step(t))

\* ------------------------------------------------ the bounded-wait variant
TakeTimeout_Ignored(t) ==
    /\ pc[t] = "take"
    /\ cur[t].fn \in {"AlarmsSet", "ExtendedAlarmsSet"}
    /\ lock.holder \notin {NoTask, t}
    /\ pc' = [pc EXCEPT ![t] = "read"]
    /\ UNCHANGED <<table, lock, op, cur, alarms, n, ret, calls, run>>

\* Where portMAX_DELAY is a bounded wait, xSemaphoreTakeRecursive returns
\* pdFALSE when the wait expires with the mutex still held by another task.
\* AlarmsSet and ExtendedAlarmsSet then return -1.
TakeTimeout(t) ==
    /\ pc[t] = "take"
    /\ cur[t].fn \in {"AlarmsSet", "ExtendedAlarmsSet"}
    /\ lock.holder \notin {NoTask, t}
    /\ FrameDone(t, Failure)
    /\ UNCHANGED <<table, lock, op, alarms, calls, run>>

\* hasSeverity does not test the result of xSemaphoreTakeRecursive: it goes on
\* to SystemAlarmsGet without the mutex.
HasTakeTimeout(t) ==
    /\ pc[t] = "take"
    /\ cur[t].fn = "hasSeverity"
    /\ lock.holder \notin {NoTask, t}
    /\ pc' = [pc EXCEPT ![t] = "read"]
    /\ UNCHANGED <<table, lock, op, cur, alarms, n, ret, calls, run>>

NextTimeout ==
    \/ Next
    \/ \E t \in Tasks : TakeTimeout(t)
    \/ \E t \in Tasks : HasTakeTimeout(t)

SpecTimeout == Init /\ [][NextTimeout]_vars

\* ------------------------------------------- runs from any stored record
\* The records the store may hold when a run starts: every severity for each
\* alarm, and for the extended alarms the status bytes (0, 0) or (1, 2).
StartTables ==
    {[Alarm |-> a,
      ExtendedAlarmStatus |-> [i \in 0 .. ExtNumElem - 1 |-> p[1]],
      ExtendedAlarmSubStatus |-> [i \in 0 .. ExtNumElem - 1 |-> p[2]]] :
        a \in [0 .. NumElem - 1 -> Severities], p \in {<<0, 0>>, <<1, 2>>}}

InitAny ==
    /\ table \in StartTables
    /\ lock = [created |-> FALSE, holder |-> NoTask, count |-> 0]
    /\ pc = [t \in Tasks |-> "idle"]
    /\ op = [t \in Tasks |-> NoOp]
    /\ cur = [t \in Tasks |-> NoFrame]
    /\ alarms = [t \in Tasks |-> DefaultTable]
    /\ n = [t \in Tasks |-> 0]
    /\ ret = [t \in Tasks |-> 0]
    /\ calls = 0
    /\ run = [t \in Tasks |-> NoRun]

\* AlarmsInitialize, then AlarmsClearAll, AlarmsDefaultAll, AlarmsGet and the
\* AlarmsHas... queries called by the tasks.
NextAny ==
    \/ AlarmsInitialize
    \/ \E t \in Tasks : CallAlarmsGet(t)
    \/ \E t \in Tasks : CallAlarmsDefaultAll(t)
    \/ \E t \in Tasks : CallAlarmsClearAll(t)
    \/ \E t \in Tasks : CallAlarmsHas(t)
    \/ \E t \in Tasks : Take(t)
    \/ \E t \in Tasks : ReadRecord(t)
    \/ \E t \in Tasks : WriteRecord(t)
    \/ \E t \in Tasks : Give(t)
    \/ \E t \in Tasks : GetRead(t)
    \/ \E t \in Tasks : HasScan(t)
    \/ \E t \in Tasks : HasGive(t)
    \/ \E t \in Tasks : Return(t)

SpecAny == InitAny /\ [][NextAny]_vars

\* ================================================================ claims
ValidIds == 0 .. NumElem - 1
ExtendedIds == 0 .. ExtNumElem - 1
Setters == {"AlarmsSet", "ExtendedAlarmsSet"}

\* The call of task t has returned and its result can be inspected.
Done(t) == pc[t] = "ret"

\* The returned calls of t and u ran at the same time, and no third call ran
\* during either or started after either.
Concurrent(t, u) ==
    /\ Done(t) /\ Done(u)
    /\ t \notin run[u].after /\ u \notin run[t].after
    /\ run[t].overlaps = 1 /\ run[u].overlaps = 1
    /\ run[t].later = 0 /\ run[u].later = 0

\* The call of u returned, the call of t started next and has returned, and
\* no other call ran during either or between them.
InARow(u, t) ==
    /\ Done(u) /\ Done(t)
    /\ u \in run[t].after
    /\ run[u].overlaps = 0 /\ run[t].overlaps = 0
    /\ run[u].later = 1 /\ run[t].later = 0

\* Task t has returned from a successful AlarmsSet on a valid id.
SetDone(t) == Done(t) /\ op[t].name = "AlarmsSet" /\ ret[t] = Success

\* The number of write-backs a setter that read tbl must make.
WriteBacksDue(tbl, alarm, severity) == IF tbl.Alarm[alarm] # severity THEN 1 ELSE 0

\* The ids whose entry differs between two records.
DiffIds(a, b) == {i \in ValidIds : Entry(a, i) # Entry(b, i)}

\* Task t makes its write-back in this step.
WritesBack(t) == pc[t] = "write" /\ pc'[t] = "give"

\* ---- C1
\* C1 as stated: two tasks call AlarmsSet concurrently on different valid ids;
\* once both have returned, each id holds the severity its task asked for and
\* the store has received exactly two write-backs.
C1_Original ==
    \A t \in Tasks, u \in Tasks :
        (t # u /\ SetDone(t) /\ SetDone(u) /\ op[t].alarm # op[u].alarm
              /\ Concurrent(t, u))
        => /\ GetResult(table, op[t].alarm) = op[t].severity
           /\ GetResult(table, op[u].alarm) = op[u].severity
           /\ run[t].nw + run[u].nw = 2

C1_Values ==
    \A t \in Tasks, u \in Tasks :
        (t # u /\ SetDone(t) /\ SetDone(u) /\ op[t].alarm # op[u].alarm
              /\ Concurrent(t, u))
        => /\ GetResult(table, op[t].alarm) = op[t].severity
           /\ GetResult(table, op[u].alarm) = op[u].severity
           /\ run[t].nw = WriteBacksDue(run[t].snap, op[t].alarm, op[t].severity)
           /\ run[u].nw = WriteBacksDue(run[u].snap, op[u].alarm, op[u].severity)
           /\ (run[t].snap.Alarm[op[t].alarm] # op[t].severity
                 /\ run[u].snap.Alarm[op[u].alarm] # op[u].severity)
              <=> run[t].nw + run[u].nw = 2

C1_WriteBackShape ==
    \A t \in Tasks :
        (WritesBack(t) /\ cur[t].fn = "AlarmsSet")
        => /\ DiffIds(table, table') = {cur[t].alarm}
           /\ table' = [table EXCEPT !.Alarm[cur[t].alarm] = cur[t].severity]

\* C1 amended: two tasks call AlarmsSet concurrently on different valid ids;
\* in every interleaving, once both have returned, each id holds the severity
\* its task asked for; each call made one write-back if the severity it read
\* for its id differed from the requested one and none otherwise (two in all
\* when both severities differed from the stored ones); and every write-back
\* of AlarmsSet is the record stored just before it with exactly the entry of
\* its id changed.
C1_NoLostUpdate == [](C1_Values) /\ [][C1_WriteBackShape]_vars

\* Two concurrent AlarmsSet calls on different ids have both written back.
C1_Witness ==
    \E t \in Tasks, u \in Tasks :
        /\ t # u /\ SetDone(t) /\ SetDone(u) /\ op[t].alarm # op[u].alarm
        /\ Concurrent(t, u)
        /\ run[t].nw = 1 /\ run[u].nw = 1
        /\ run[t].snap # run[u].snap

\* ---- C2
\* C2 as stated: a task that is executing SystemAlarmsGet or SystemAlarmsSet
\* on behalf of AlarmsSet, ExtendedAlarmsSet, AlarmsGet or hasSeverity holds the
\* mutex at that moment.
C2_Original ==
    \A t \in Tasks : pc[t] \in {"read", "write", "getread"} => lock.holder = t

\* C2 amended: a task executing SystemAlarmsGet or SystemAlarmsSet on behalf of
\* AlarmsSet or ExtendedAlarmsSet holds the mutex, and so does one executing the
\* SystemAlarmsGet and the scan of hasSeverity whenever its take succeeded (its
\* result is not tested); AlarmsGet reads the record without taking the mutex.
C2_LockedAccess ==
    \A t \in Tasks :
        /\ (pc[t] \in {"read", "write"} /\ cur[t].fn \in Setters)
           => (lock.holder = t /\ lock.count = 1 /\ run[t].takes = run[t].gives + 1)
        /\ (pc[t] \in {"read", "scan", "giveHit", "giveMiss"} /\ run[t].takes = 1)
           => (lock.holder = t /\ lock.count = 1)
        /\ pc[t] = "getread" => (lock.holder # t /\ run[t].takes = 0)

\* One task is about to write back while another is about to read for AlarmsGet.
C2_Witness ==
    \E t \in Tasks, u \in Tasks :
        /\ pc[t] = "write" /\ lock.holder = t
        /\ pc[u] = "getread" /\ op[u].alarm = cur[t].alarm

\* ---- C3
\* What ExtendedAlarmsSet must leave in the record it read.
C3_Expected(tbl, o) ==
    IF tbl.Alarm[o.alarm] = o.severity THEN tbl
    ELSE [Alarm |-> [tbl.Alarm EXCEPT ![o.alarm] = o.severity],
          ExtendedAlarmStatus |->
              [tbl.ExtendedAlarmStatus EXCEPT ![o.alarm] = o.status],
          ExtendedAlarmSubStatus |->
              [tbl.ExtendedAlarmSubStatus EXCEPT ![o.alarm] = o.subStatus]]

\* C3: ExtendedAlarmsSet(id, S, status, subStatus) on an extended id whose
\* stored severity equals S makes no write-back and leaves the stored status
\* and sub-status of id as they were, whatever status and subStatus are; when
\* the stored severity differs, severity, status and sub-status of id are all
\* three replaced in one single write-back.
C3_SeverityGated ==
    \A t \in Tasks :
        op[t].name = "ExtendedAlarmsSet" =>
            /\ pc[t] = "give" =>
                  /\ table = C3_Expected(run[t].snap, op[t])
                  /\ run[t].nw = WriteBacksDue(run[t].snap, op[t].alarm, op[t].severity)
            /\ (Done(t) /\ ret[t] = Success) =>
                  /\ run[t].nw = WriteBacksDue(run[t].snap, op[t].alarm, op[t].severity)
                  /\ run[t].nr = 1
                  /\ (run[t].overlaps = 0 /\ run[t].later = 0)
                     => table = C3_Expected(run[t].snap, op[t])

\* After ExtendedAlarmsSet(0, ERROR, 1, 2), ExtendedAlarmsSet(0, ERROR, 9, 9)
\* has returned and (1, 2) is still stored.
C3_Witness ==
    \E t \in Tasks, u \in Tasks :
        /\ InARow(u, t)
        /\ op[u] = [name |-> "ExtendedAlarmsSet", alarm |-> 0,
                    severity |-> SYSTEMALARMS_ALARM_ERROR, status |-> 1,
                    subStatus |-> 2]
        /\ op[t] = [name |-> "ExtendedAlarmsSet", alarm |-> 0,
                    severity |-> SYSTEMALARMS_ALARM_ERROR, status |-> 9,
                    subStatus |-> 9]
        /\ run[u].nw = 1 /\ run[t].nw = 0
        /\ Entry(table, 0) = <<SYSTEMALARMS_ALARM_ERROR, 1, 2>>

\* ---- C4
\* C4: for every valid id and every severity S, an AlarmsGet(id) that runs
\* after AlarmsSet(id, S) has returned success, with no other call in between,
\* returns S.
C4_GetAfterSet ==
    \A t \in Tasks, u \in Tasks :
        (InARow(u, t) /\ SetDone(u) /\ op[t].name = "AlarmsGet"
              /\ op[t].alarm = op[u].alarm)
        => /\ ret[t] = op[u].severity
           /\ table.Alarm[op[u].alarm] = op[u].severity

\* AlarmsSet(1, CRITICAL) wrote back and the AlarmsGet(1) after it returned.
C4_Witness ==
    \E t \in Tasks, u \in Tasks :
        /\ InARow(u, t) /\ SetDone(u) /\ op[t].name = "AlarmsGet"
        /\ op[u].alarm = 1 /\ op[t].alarm = 1
        /\ op[u].severity = SYSTEMALARMS_ALARM_CRITICAL
        /\ run[u].nw = 1 /\ run[t].nr = 1

\* ---- C5
\* Two AlarmsSet calls in a row with the same valid id and the same severity.
SameSetTwice(u, t) ==
    /\ InARow(u, t) /\ SetDone(u) /\ SetDone(t)
    /\ op[u].alarm = op[t].alarm /\ op[u].severity = op[t].severity

\* C5 as stated: AlarmsSet(id, S) called twice in a row makes exactly one
\* write-back over the two calls; the second makes none and returns success.
C5_Original ==
    \A t \in Tasks, u \in Tasks :
        SameSetTwice(u, t)
        => (run[u].nw + run[t].nw = 1 /\ run[t].nw = 0 /\ ret[t] = Success)

\* C5 amended: AlarmsSet(id, S) called twice in a row with the same valid id
\* and the same S, with no other call in between: the second call makes no
\* write-back and returns success, and the first makes exactly one write-back
\* when the stored severity of id differed from S before it and none when it
\* already was S (so at most one write-back over the two calls).
C5_SecondSetSilent ==
    \A t \in Tasks, u \in Tasks :
        SameSetTwice(u, t)
        => /\ run[t].nw = 0 /\ ret[t] = Success /\ run[t].nr = 1
           /\ run[u].nw = WriteBacksDue(run[u].snap, op[u].alarm, op[u].severity)
           /\ run[u].nw + run[t].nw <= 1
           /\ table.Alarm[op[t].alarm] = op[t].severity

\* The first of the two calls wrote back, the second has returned.
C5_Witness ==
    \E t \in Tasks, u \in Tasks :
        SameSetTwice(u, t) /\ run[u].nw = 1 /\ run[t].nw = 0

\* ---- C6
\* What AlarmsClear(id) must leave in the record it read.
C6_Expected(tbl, id) ==
    IF tbl.Alarm[id] = SYSTEMALARMS_ALARM_OK THEN tbl
    ELSE IF id \in ExtendedIds
    THEN [Alarm |-> [tbl.Alarm EXCEPT ![id] = SYSTEMALARMS_ALARM_OK],
          ExtendedAlarmStatus |-> [tbl.ExtendedAlarmStatus EXCEPT ![id] = 0],
          ExtendedAlarmSubStatus |-> [tbl.ExtendedAlarmSubStatus EXCEPT ![id] = 0]]
    ELSE [tbl EXCEPT !.Alarm[id] = SYSTEMALARMS_ALARM_OK]

\* C6: AlarmsClear(id) on an extended id whose stored severity is not OK sets
\* the severity to OK and status and sub-status to (0, 0); on an extended id
\* already at OK it leaves status and sub-status as stored, even when they are
\* not zero; on a simple id it is AlarmsSet(id, OK).
C6_Clear ==
    \A t \in Tasks :
        (op[t].name = "AlarmsClear" /\ op[t].alarm \in ValidIds) =>
            /\ pc[t] = "give" =>
                  /\ table = C6_Expected(run[t].snap, op[t].alarm)
                  /\ run[t].nw = WriteBacksDue(run[t].snap, op[t].alarm,
                                               SYSTEMALARMS_ALARM_OK)
            /\ InCall(t) =>
                  cur[t] = IF op[t].alarm \in ExtendedIds
                           THEN ExtFrame(op[t].alarm, SYSTEMALARMS_ALARM_OK, 0, 0)
                           ELSE SetFrame(op[t].alarm, SYSTEMALARMS_ALARM_OK)
            /\ (Done(t) /\ run[t].overlaps = 0 /\ run[t].later = 0) =>
                  /\ ret[t] = Success
                  /\ table = C6_Expected(run[t].snap, op[t].alarm)

\* ExtendedAlarmsSet(0, OK, 1, 2) was stored, AlarmsClear(0) has returned and
\* (1, 2) is still stored.
C6_Witness ==
    \E t \in Tasks, u \in Tasks :
        /\ InARow(u, t)
        /\ op[u].name = "ExtendedAlarmsSet" /\ run[u].nw = 1
        /\ op[t].name = "AlarmsClear" /\ op[t].alarm = 0
        /\ Entry(table, 0) = <<SYSTEMALARMS_ALARM_OK, 1, 2>>

\* AlarmsClear(0) on an extended alarm that was not OK has zeroed its status.
C6_WitnessReset ==
    \E t \in Tasks, u \in Tasks :
        /\ InARow(u, t)
        /\ op[u].name = "ExtendedAlarmsSet" /\ run[u].nw = 1
        /\ op[u].severity = SYSTEMALARMS_ALARM_ERROR
        /\ op[t].name = "AlarmsClear" /\ op[t].alarm = 0
        /\ Entry(table, 0) = <<SYSTEMALARMS_ALARM_OK, 0, 0>>

\* ---- C7
\* The names of the three queries built on hasSeverity.
HasNames == {"AlarmsHasWarnings", "AlarmsHasErrors", "AlarmsHasCritical"}

\* Task t is in hasSeverity, between its SystemAlarmsGet and its return.
Scanning(t) == op[t].name \in HasNames /\ pc[t] \in {"scan", "giveHit", "giveMiss"}

C7_Snapshot ==
    \A t \in Tasks :
        /\ Scanning(t) =>
              /\ lock.holder = t
              /\ run[t].nr = 1
              /\ alarms[t] = run[t].snap
              /\ run[t].snap = table
        /\ (Done(t) /\ op[t].name \in HasNames) => run[t].nr = 1
        /\ (Done(t) /\ op[t].name = "AlarmsGet" /\ op[t].alarm \in ValidIds) =>
              /\ run[t].nr = 1
              /\ ret[t] = run[t].snap.Alarm[op[t].alarm]

C7_WholeRead ==
    \A t \in Tasks :
        (pc[t] \in {"getread", "read"} /\ run'[t].nr = run[t].nr + 1)
        => /\ run'[t].snap = table
           /\ table' = table

Failed(t) ==
    /\ Done(t)
    /\ \/ ret[t] = Failure
       \/ op[t].name = "AlarmsGet" /\ op[t].alarm >= NumElem

C8_NoAccess ==
    \A t \in Tasks :
        /\ Failed(t) => (run[t].nw = 0 /\ run[t].nr = 0 /\ run[t].takes = 0)
        /\ (Done(t) /\ op[t].name = "AlarmsSet" /\ op[t].alarm >= NumElem)
           => ret[t] = Failure
        /\ (Done(t) /\ op[t].name = "AlarmsGet" /\ op[t].alarm >= NumElem)
           => ret[t] = 0
        /\ (Done(t) /\ op[t].name \in Setters /\ run[t].takes = 0)
           => (ret[t] = Failure /\ run[t].nr = 0 /\ run[t].nw = 0)

C8_OnlyWriteBacksChange ==
    table' # table =>
        \E t \in Tasks : WritesBack(t) /\ run'[t].nw = run[t].nw + 1

\* C8: every call that returns failure has made no write-back and has not
\* read the record, and the stored record changes by write-backs only, so it
\* leaves the stored record unchanged: AlarmsSet and AlarmsGet with
\* id = NumElem fail, and an AlarmsSet or ExtendedAlarmsSet whose take of the
\* mutex fails returns -1 before any read or write.
C8_FailureNoEffect == [](C8_NoAccess) /\ [][C8_OnlyWriteBacksChange]_vars

\* AlarmsSet on a valid id has returned -1 because its take failed, while the
\* other task's call changed the record.
C8_Witness ==
    \E t \in Tasks, u \in Tasks :
        /\ Failed(t) /\ op[t].name = "AlarmsSet" /\ op[t].alarm \in ValidIds
        /\ Done(u) /\ run[u].nw = 1

\* AlarmsSet with id = NumElem has returned -1.
C8_WitnessInvalidId ==
    \E t \in Tasks :
        Failed(t) /\ op[t].name = "AlarmsSet" /\ op[t].alarm = NumElem

\* ---- C9
C9_Threshold(name) ==
    CASE name = "AlarmsHasWarnings" -> SYSTEMALARMS_ALARM_WARNING
      [] name = "AlarmsHasErrors" -> SYSTEMALARMS_ALARM_ERROR
      [] name = "AlarmsHasCritical" -> SYSTEMALARMS_ALARM_CRITICAL

C9_Any(tbl, name) ==
    IF \E i \in ValidIds : tbl.Alarm[i] >= C9_Threshold(name) THEN 1 ELSE 0

AllOk(tbl) == \A i \in ValidIds : tbl.Alarm[i] = SYSTEMALARMS_ALARM_OK

\* C9: a query built on hasSeverity returns true if and only if at least one
\* of the entries 0 .. NumElem - 1 of the record it read has a severity at or
\* above its threshold in the order UNINITIALISED < OK < WARNING < ERROR <
\* CRITICAL; AlarmsHasWarnings is false on a record whose entries are all OK
\* and true right after a successful AlarmsSet(id, S) with S >= WARNING.
C9_HasAtLeast ==
    \A t \in Tasks :
        (Done(t) /\ op[t].name \in HasNames) =>
            /\ ret[t] = C9_Any(run[t].snap, op[t].name)
            /\ (op[t].name = "AlarmsHasWarnings" /\ AllOk(run[t].snap)) => ret[t] = 0
            /\ \A u \in Others(t) :
                  (InARow(u, t) /\ SetDone(u) /\ op[t].name = "AlarmsHasWarnings"
                       /\ op[u].severity >= SYSTEMALARMS_ALARM_WARNING)
                  => ret[t] = 1

\* AlarmsHasWarnings has returned false on a record whose entries are all OK.
C9_Witness ==
    \E t \in Tasks :
        /\ Done(t) /\ op[t].name = "AlarmsHasWarnings"
        /\ AllOk(run[t].snap) /\ ret[t] = 0

\* AlarmsHasWarnings has returned true right after AlarmsSet(1, WARNING).
C9_WitnessAfterSet ==
    \E t \in Tasks, u \in Tasks :
        /\ InARow(u, t) /\ SetDone(u) /\ op[t].name = "AlarmsHasWarnings"
        /\ op[u].alarm = 1 /\ op[u].severity = SYSTEMALARMS_ALARM_WARNING
        /\ ret[t] = 1

\* ---- C10
\* C10: every call releases the mutex before it returns, on every path: a task
\* that is in no call, has returned, or stands between two calls of a loop
\* does not hold the mutex, and at every return the takes that succeeded equal
\* the gives, the early error returns and the early return of the scan
\* included.
C10_Released ==
    \A t \in Tasks :
        /\ pc[t] \in {"idle", "ret", "take", "getread"} => lock.holder # t
        /\ pc[t] \in {"ret", "take"} => run[t].takes = run[t].gives
        /\ lock.holder = NoTask <=> lock.count = 0

\* hasSeverity has returned 1 from inside its scan, before the last entry.
C10_Witness ==
    \E t \in Tasks :
        /\ Done(t) /\ op[t].name \in HasNames /\ ret[t] = 1 /\ n[t] = 0
        /\ run[t].takes = 1 /\ run[t].gives = 1 /\ lock.holder = NoTask

\* ---- C11
C11_Rejected ==
    /\ \A t \in Tasks :
          (op[t].name = "ExtendedAlarmsSet" /\ op[t].alarm >= ExtNumElem)
          => /\ pc[t] = "ret" /\ ret[t] = Failure
             /\ run[t].nr = 0 /\ run[t].nw = 0 /\ run[t].takes = 0
             /\ lock.holder # t
    /\ DOMAIN table.ExtendedAlarmStatus = ExtendedIds
    /\ DOMAIN table.ExtendedAlarmSubStatus = ExtendedIds

C11_StatusWrittenFor ==
    \A i \in ExtendedIds :
        (\/ table'.ExtendedAlarmStatus[i] # table.ExtendedAlarmStatus[i]
         \/ table'.ExtendedAlarmSubStatus[i] # table.ExtendedAlarmSubStatus[i])
        => \E t \in Tasks :
              /\ WritesBack(t) /\ cur[t].fn = "ExtendedAlarmsSet"
              /\ cur[t].alarm = i

\* C11: ExtendedAlarmsSet(id, ...) returns -1 for every id >= ExtNumElem, the
\* simple ids ExtNumElem .. NumElem - 1 included, without taking the mutex,
\* reading the record or writing it back; the record keeps a status and a
\* sub-status for the extended ids only, and a status or sub-status changes
\* only by the write-back of an ExtendedAlarmsSet on that extended id, so none
\* is ever written for a simple alarm.
C11_ExtendedOnly == [](C11_Rejected) /\ [][C11_StatusWrittenFor]_vars

\* ExtendedAlarmsSet on the simple id 1 has returned -1 while an
\* ExtendedAlarmsSet on the extended id 0 has stored its status.
C11_Witness ==
    \E t \in Tasks, u \in Tasks :
        /\ Done(t) /\ op[t].name = "ExtendedAlarmsSet" /\ op[t].alarm = 1
        /\ ret[t] = Failure /\ 1 \in ValidIds \ ExtendedIds
        /\ Done(u) /\ op[u].name = "ExtendedAlarmsSet" /\ op[u].alarm = 0
        /\ run[u].nw = 1 /\ table.ExtendedAlarmStatus[0] # 0

\* ---- C12
\* The calls that only read the record.
Readers == HasNames \cup {"AlarmsGet"}

\* The calls of t and u, in progress or returned, ran at the same time.
Overlapping(t, u) ==
    /\ pc[t] # "idle" /\ pc[u] # "idle"
    /\ t \notin run[u].after /\ u \notin run[t].after

\* No call ran during the call of t except at most one reader, still in
\* progress or just returned, and none started after it.
OnlyReadersOverlap(t) ==
    /\ run[t].later = 0
    /\ \/ run[t].overlaps = 0
       \/ /\ run[t].overlaps = 1
          /\ \E u \in Others(t) : Overlapping(t, u) /\ op[u].name \in Readers

\* The record tbl with the severities of the ids below k at the default.
PrefixDefaulted(tbl, k) ==
    [tbl EXCEPT !.Alarm = [i \in ValidIds |->
                              IF i < k THEN SYSTEMALARMS_ALARM_DEFAULT ELSE @[i]]]

\* C12: AlarmsDefaultAll calls AlarmsDefault on the ids 0, 1, ..., NumElem - 1
\* in ascending order, with one take and one give of the mutex per id.  When
\* no other writer runs, the stored record is at every moment the record of
\* the start with the ids below some k defaulted (a prefix), every record a
\* concurrent reader gets is of that form, and when AlarmsDefaultAll returns
\* every severity is the default.
C12_DefaultAll ==
    \A t \in Tasks :
        op[t].name = "AlarmsDefaultAll" =>
            /\ InCall(t) => (n[t] \in ValidIds /\ cur[t] = AlarmsDefault(n[t]))
            /\ pc[t] = "take" => (run[t].takes = n[t] /\ run[t].gives = n[t])
            /\ Done(t) =>
                  /\ run[t].takes = NumElem /\ run[t].gives = NumElem
                  /\ run[t].nr = NumElem /\ ret[t] = 0
            /\ (pc[t] # "idle" /\ OnlyReadersOverlap(t)) =>
                  /\ \E k \in 0 .. NumElem :
                        /\ table = PrefixDefaulted(run[t].pre, k)
                        /\ InCall(t) => k \in {n[t], n[t] + 1}
                        /\ Done(t) => k = NumElem
                  /\ Done(t) =>
                        \A i \in ValidIds : table.Alarm[i] = SYSTEMALARMS_ALARM_DEFAULT
                  /\ \A u \in Others(t) :
                        (op[u].name \in Readers /\ run[u].nr = 1
                              /\ Overlapping(t, u) /\ run[u].overlaps = 1)
                        => \E k \in 0 .. NumElem :
                              run[u].snap = PrefixDefaulted(run[t].pre, k)

\* A reader running during AlarmsDefaultAll got a record in which id 0 is
\* defaulted and id 1 is not yet.
C12_Witness ==
    \E t \in Tasks, u \in Tasks :
        /\ op[t].name = "AlarmsDefaultAll" /\ OnlyReadersOverlap(t)
        /\ op[u].name \in Readers /\ run[u].nr = 1 /\ Overlapping(t, u)
        /\ run[u].overlaps = 1
        /\ run[t].pre.Alarm[0] # SYSTEMALARMS_ALARM_DEFAULT
        /\ run[u].snap.Alarm[0] = SYSTEMALARMS_ALARM_DEFAULT
        /\ run[u].snap.Alarm[1] # SYSTEMALARMS_ALARM_DEFAULT

\* AlarmsDefaultAll has returned with no other writer and every severity that
\* was not the default now is.
C12_WitnessDone ==
    \E t \in Tasks :
        /\ Done(t) /\ op[t].name = "AlarmsDefaultAll" /\ OnlyReadersOverlap(t)
        /\ run[t].nw = NumElem
        /\ \A i \in ValidIds : table.Alarm[i] = SYSTEMALARMS_ALARM_DEFAULT

\* ---- C13
C13_BeforeCalls ==
    /\ (\E t \in Tasks : pc[t] # "idle") => lock.created
    /\ ~lock.created => (calls = 0 /\ lock.holder = NoTask /\ table \in StartTables)

C13_InitializeStep ==
    (~lock.created /\ lock'.created)
    => /\ table' = table
       /\ lock' = [created |-> TRUE, holder |-> NoTask, count |-> 0]
       /\ UNCHANGED <<pc, op, cur, alarms, n, ret, calls, run>>

\* C13: AlarmsInitialize creates the mutex and leaves the stored record exactly
\* as the store had it: the step that creates the mutex changes no severity,
\* status or sub-status and starts no AlarmsClear or AlarmsDefault, whatever
\* the record holds, and no call runs before it.
C13_InitializeKeepsTable == [](C13_BeforeCalls) /\ [][C13_InitializeStep]_vars

\* AlarmsInitialize has run on a record that AlarmsClearAll or AlarmsDefaultAll
\* would change, and the record is as it was.
C13_Witness ==
    /\ lock.created /\ calls = 0
    /\ table.Alarm[0] = SYSTEMALARMS_ALARM_CRITICAL
    /\ table.Alarm[1] = SYSTEMALARMS_ALARM_WARNING
    /\ table.ExtendedAlarmStatus[0] = 1 /\ table.ExtendedAlarmSubStatus[0] = 2

\* ---- C14
\* The tasks between the SystemAlarmsGet and the give of an AlarmsSet or
\* ExtendedAlarmsSet.
Mutating == {t \in Tasks : cur[t].fn \in Setters /\ pc[t] \in {"write", "give"}}

\* C14: at most one task is between the SystemAlarmsGet and the give of an
\* AlarmsSet or ExtendedAlarmsSet; that task holds the mutex once, the copy it
\* read is still the stored record when it writes, so what it writes back is
\* the record stored at that moment with the entry of its id edited, and once
\* written the stored record is its copy: no write-back overwrites a change
\* made by another task after the read.
C14_OneMutator ==
    /\ Cardinality(Mutating) <= 1
    /\ \A t \in Mutating :
          /\ lock.holder = t /\ lock.count = 1
          /\ alarms[t] = table
          /\ pc[t] = "write" =>
                /\ run[t].snap = table
                /\ Updated(alarms[t], cur[t]) = Updated(table, cur[t])
                /\ DiffIds(table, Updated(alarms[t], cur[t])) = {cur[t].alarm}
          /\ DiffIds(run[t].snap, table) \subseteq {cur[t].alarm}

\* One task is about to write back the entry of id 0 while the other waits
\* for the mutex to change the entry of id 1.
C14_Witness ==
    \E t \in Tasks, u \in Tasks :
        /\ pc[t] = "write" /\ cur[t].alarm = 0
        /\ pc[u] = "take" /\ cur[u].fn \in Setters /\ cur[u].alarm = 1
        /\ Changed(table, cur[u]) /\ run[u].takes = 0

\* ---- C15
\* The steps of a task from its take to its give: one SystemAlarmsGet, then at
\* most one SystemAlarmsSet, then the give that frees the mutex.
C15_SectionSteps ==
    \A t \in Tasks :
        (\/ pc'[t] # pc[t]
         \/ run'[t].nr # run[t].nr
         \/ run'[t].nw # run[t].nw)
        => CASE pc[t] = "take" ->
                   /\ pc'[t] = "read" /\ lock'.holder = t
                   /\ run'[t].nr = run[t].nr /\ run'[t].nw = run[t].nw
             [] pc[t] = "read" ->
                   /\ pc'[t] \in {"write", "give", "scan"}
                   /\ run'[t].nr = run[t].nr + 1 /\ run'[t].nw = run[t].nw
                   /\ lock'.holder = t
             [] pc[t] = "write" ->
                   /\ pc'[t] = "give"
                   /\ run'[t].nr = run[t].nr /\ run'[t].nw = run[t].nw + 1
                   /\ lock'.holder = t
             [] pc[t] = "scan" ->
                   /\ pc'[t] \in {"giveHit", "giveMiss"}
                   /\ run'[t].nr = run[t].nr /\ run'[t].nw = run[t].nw
                   /\ lock'.holder = t
             [] pc[t] \in {"give", "giveHit", "giveMiss"} ->
                   /\ pc'[t] \in {"take", "ret"}
                   /\ run'[t].nr = run[t].nr /\ run'[t].nw = run[t].nw
                   /\ lock'.holder = NoTask
             [] OTHER -> TRUE

C15_Returns == \A t \in Tasks : InCall(t) ~> Done(t)

StatusOf(tbl, i) == <<tbl.ExtendedAlarmStatus[i], tbl.ExtendedAlarmSubStatus[i]>>

\* C16: AlarmsClearAll calls AlarmsClear on the ids 0 .. NumElem - 1 in
\* ascending order; when it returns with no other writer, every severity is OK
\* and no entry is at or above WARNING (an AlarmsHasWarnings called next
\* returns false), every extended id whose severity was not OK before the call
\* has status and sub-status (0, 0), and every extended id that was OK keeps
\* the status and sub-status it had.
C16_ClearAll ==
    \A t \in Tasks :
        op[t].name = "AlarmsClearAll" =>
            /\ InCall(t) => (n[t] \in ValidIds /\ cur[t] = AlarmsClear(n[t]))
            /\ (Done(t) /\ OnlyReadersOverlap(t)) =>
                  /\ ret[t] = 0
                  /\ \A i \in ValidIds :
                        /\ table.Alarm[i] = SYSTEMALARMS_ALARM_OK
                        /\ ~Matches(table, i, SYSTEMALARMS_ALARM_WARNING)
                  /\ \A i \in ExtendedIds :
                        StatusOf(table, i) =
                            IF run[t].pre.Alarm[i] # SYSTEMALARMS_ALARM_OK
                            THEN <<0, 0>> ELSE StatusOf(run[t].pre, i)
            /\ \A u \in Others(t) :
                  (InARow(t, u) /\ op[u].name = "AlarmsHasWarnings") => ret[u] = 0

\* AlarmsClearAll has returned: the extended id 0 was OK with status (1, 2)
\* and keeps it, the simple id 1 was CRITICAL and is OK.
C16_Witness ==
    \E t \in Tasks :
        /\ Done(t) /\ op[t].name = "AlarmsClearAll" /\ OnlyReadersOverlap(t)
        /\ run[t].pre.Alarm[0] = SYSTEMALARMS_ALARM_OK
        /\ run[t].pre.Alarm[1] = SYSTEMALARMS_ALARM_CRITICAL
        /\ StatusOf(run[t].pre, 0) = <<1, 2>>
        /\ StatusOf(table, 0) = <<1, 2>>
        /\ table.Alarm[1] = SYSTEMALARMS_ALARM_OK

\* AlarmsClearAll has returned: the extended id 0 was at ERROR with status
\* (1, 2) and now is OK with (0, 0); the AlarmsHasWarnings called next
\* returned false.
C16_WitnessReset ==
    \E t \in Tasks, u \in Tasks :
        /\ InARow(t, u) /\ op[t].name = "AlarmsClearAll"
        /\ op[u].name = "AlarmsHasWarnings" /\ ret[u] = 0
        /\ run[t].pre.Alarm[0] = SYSTEMALARMS_ALARM_ERROR
        /\ StatusOf(run[t].pre, 0) = <<1, 2>>
        /\ StatusOf(table, 0) = <<0, 0>>

\* ---- C17
\* C17: the mutex is never taken by the task that holds it.  It is held at
\* most once (nesting count <= 1), a task that stands at a take or between
\* two calls does not hold it, whichever of AlarmsClear, AlarmsDefault,
\* AlarmsClearAll and AlarmsDefaultAll led to the take, and the holder is
\* inside the AlarmsSet, ExtendedAlarmsSet or hasSeverity that took it: a
\* mutex that is not recursive would do.
C17_NeverNested ==
    /\ lock.count \in {0, 1}
    /\ lock.count = 1 <=> lock.holder \in Tasks
    /\ \A t \in Tasks :
          /\ pc[t] = "take" => lock.holder # t
          /\ lock.holder = t =>
                /\ pc[t] \in {"read", "write", "give", "scan", "giveHit", "giveMiss"}
                /\ cur[t].fn \in Setters \cup {"hasSeverity"}
                /\ run[t].takes = run[t].gives + 1

\* AlarmsClearAll holds the mutex for its second AlarmsClear, taken through
\* AlarmsSet, with a nesting count of one.
C17_Witness ==
    \E t \in Tasks :
        /\ op[t].name = "AlarmsClearAll" /\ pc[t] = "read" /\ n[t] = 1
        /\ cur[t].fn = "AlarmsSet"
        /\ lock.holder = t /\ lock.count = 1 /\ run[t].takes = 2

\* ---- C18
C18_WriteBackStep ==
    /\ \A t \in Tasks :
          WritesBack(t) =>
              /\ table' # table
              /\ table.Alarm[cur[t].alarm] # cur[t].severity
              /\ table'.Alarm[cur[t].alarm] = cur[t].severity
              /\ \A i \in ValidIds \ {cur[t].alarm} : Entry(table', i) = Entry(table, i)
              /\ run'[t].nw = run[t].nw + 1
    /\ table' # table => \E t \in Tasks : WritesBack(t) /\ cur[t].fn \in Setters

C18_WriteBackCount ==
    \A t \in Tasks :
        (Done(t) /\ cur[t].fn \in Setters /\ ~IsLoop(op[t].name)) =>
            /\ ret[t] = Success =>
                  /\ run[t].nr = 1
                  /\ run[t].nw = IF Changed(run[t].snap, cur[t]) THEN 1 ELSE 0
            /\ ret[t] = Failure => run[t].nw = 0

\* C18: write-backs happen only when the severity changes.  Every
\* SystemAlarmsSet made by the library stores a record that differs from the
\* one stored just before it in the severity of the call's id and in no other
\* id's fields, so it never stores a record identical to the stored one; the
\* stored record changes in no other way; and a successful AlarmsSet or
\* ExtendedAlarmsSet makes one write-back when the stored severity differed
\* from the requested one and none when it did not.
C18_OnlyOnTransition == [](C18_WriteBackCount) /\ [][C18_WriteBackStep]_vars

\* An ExtendedAlarmsSet that changed the severity wrote back once and an
\* AlarmsSet that asked for the stored severity wrote nothing.
C18_Witness ==
    \E t \in Tasks, u \in Tasks :
        /\ Done(t) /\ op[t].name = "ExtendedAlarmsSet" /\ ret[t] = Success
        /\ run[t].nw = 1
        /\ Done(u) /\ op[u].name = "AlarmsSet" /\ ret[u] = Success
        /\ run[u].nr = 1 /\ run[u].nw = 0

\* ---- C19
\* Task t has returned from one of the three queries, having read once.
HasDone(t) == Done(t) /\ op[t].name \in HasNames /\ run[t].nr = 1

\* C19: the three queries are monotone in their threshold.  Two of them that
\* read the same stored record agree in this way: if the one with the higher
\* threshold returns true, so does the other (AlarmsHasCritical implies
\* AlarmsHasErrors implies AlarmsHasWarnings); and on a record that holds a
\* CRITICAL severity, as a successful AlarmsSet(id, CRITICAL) leaves it, all
\* three return true.
C19_Monotone ==
    \A t \in Tasks :
        HasDone(t) =>
            /\ \A u \in Others(t) :
                  (HasDone(u) /\ run[u].snap = run[t].snap
                       /\ C9_Threshold(op[t].name) >= C9_Threshold(op[u].name)
                       /\ ret[t] = 1)
                  => ret[u] = 1
            /\ (\E i \in ValidIds : run[t].snap.Alarm[i] = SYSTEMALARMS_ALARM_CRITICAL)
               => ret[t] = 1
            /\ ret[t] \in {0, 1}

\* AlarmsHasCritical and then AlarmsHasWarnings have both returned true on the
\* same stored record.
C19_Witness ==
    \E t \in Tasks, u \in Tasks :
        /\ InARow(t, u) /\ HasDone(t) /\ HasDone(u)
        /\ op[t].name = "AlarmsHasCritical" /\ op[u].name = "AlarmsHasWarnings"
        /\ run[t].snap = run[u].snap /\ ret[t] = 1 /\ ret[u] = 1

\* On the same stored record AlarmsHasErrors returned true and
\* AlarmsHasCritical false.
C19_WitnessStrict ==
    \E t \in Tasks, u \in Tasks :
        /\ InARow(t, u) /\ HasDone(t) /\ HasDone(u)
        /\ op[t].name = "AlarmsHasErrors" /\ op[u].name = "AlarmsHasCritical"
        /\ run[t].snap = run[u].snap /\ ret[t] = 1 /\ ret[u] = 0

\* ---- C20
\* The calls that pass their id on to AlarmsSet or ExtendedAlarmsSet.
Forwarders == {"AlarmsClear", "AlarmsDefault"}

C20_Rejected ==
    /\ \A a \in AlarmIds :
          a >= NumElem => AlarmsClear(a) = SetFrame(a, SYSTEMALARMS_ALARM_OK)
    /\ \A t \in Tasks :
          /\ (op[t].name \in Forwarders /\ op[t].alarm >= NumElem) =>
                /\ pc[t] = "ret" /\ ret[t] = Failure
                /\ run[t].takes = 0 /\ run[t].nr = 0 /\ run[t].nw = 0
                /\ lock.holder # t
          /\ (IsLoop(op[t].name) /\ InCall(t)) =>
                /\ n[t] \in ValidIds /\ cur[t].alarm = n[t]
                /\ ValidAlarm(cur[t])
          /\ (IsLoop(op[t].name) /\ Done(t)) =>
                (run[t].takes = NumElem /\ run[t].nr = NumElem /\ ret[t] = 0)

C20_RejectStep ==
    \A t \in Tasks :
        (pc[t] = "idle" /\ pc'[t] = "ret") => (table' = table /\ lock' = lock)

\* C20: AlarmsClear and AlarmsDefault on an id out of range are rejected
\* without effect.  For every id >= NumElem, AlarmsClear(id) takes the branch
\* of the simple alarms and, like AlarmsDefault(id), returns -1 without taking
\* the mutex, reading the record or writing it back, and the step that
\* rejects the call leaves the stored record and the mutex as they were;
\* AlarmsClearAll and AlarmsDefaultAll pass only the ids 0 .. NumElem - 1, so
\* none of their calls is rejected.
C20_OutOfRange == [](C20_Rejected) /\ [][C20_RejectStep]_vars

\* AlarmsClear(NumElem) and AlarmsDefault(NumElem) have both returned -1.
C20_Witness ==
    \E t \in Tasks, u \in Tasks :
        /\ Done(t) /\ op[t].name = "AlarmsClear" /\ op[t].alarm = NumElem
        /\ ret[t] = Failure
        /\ Done(u) /\ op[u].name = "AlarmsDefault" /\ op[u].alarm = NumElem
        /\ ret[u] = Failure

====
